---- MODULE Spec2Model ----
(***************************************************************************)
(* Transaction ledger of effective-train: the account state machine        *)
(* (account.rs), the Ledger that owns accounts and the store of approved   *)
(* transactions (ledger.rs), and the router / worker / join pipeline       *)
(* (io_ops.rs, main.rs).                                                    *)
(*                                                                         *)
(* Decimal balances are modelled as integers in -DecMax .. DecMax; the     *)
(* saturating operations clamp at these two ends as rust_decimal's do at   *)
(* Decimal::MIN and Decimal::MAX.  Option<Decimal> is a sequence of length *)
(* at most one: <<>> is None, <<a>> is Some(a).  A HashMap is a function    *)
(* whose domain is the set of keys present.                                 *)
(***************************************************************************)
EXTENDS Integers, Sequences, FiniteSets, TLC

\* ---------------------------------------------------------------- bounds
\* the balance type holds -DecMax .. DecMax (Decimal::MIN .. Decimal::MAX)
DecMax == 2
\* transactions one Ledger receives / calls made on one ClientState
MaxSteps == 4
\* worker counts main may be started with
MaxWorkers == 2
\* rows the source holds
MaxInput == 3

\* u16 client ids and u32 transaction ids that occur in the input
Clients == {1, 2}
TxIds == {1, 2}
Decimals == (-DecMax)..DecMax
\* amounts a CSV row can carry: negative ones are not rejected by the parser
Amounts == {-1, 1, 2}
None == <<>>
Some(a) == <<a>>
OptAmounts == {None} \cup {Some(a) : a \in Amounts}

\* ------------------------------------------------------------- data.rs
Kinds == {"Deposit", "Withdrawal", "Dispute", "Resolve", "Chargeback"}

Transaction(k, c, t, a, d) ==
    [tx_type |-> k, client_id |-> c, tx_id |-> t, amount |-> a, in_dispute |-> d]

is_disputable(tx) == tx.tx_type \in {"Deposit", "Withdrawal"}

\* in_dispute is skip_deserializing: every incoming transaction carries false.
\* Dispute, Resolve and Chargeback rows carry no amount (it is never read).
InputTxs ==
    {Transaction(k, c, t, a, FALSE) :
        k \in {"Deposit", "Withdrawal"}, c \in Clients, t \in TxIds, a \in OptAmounts}
    \cup
    {Transaction(k, c, t, None, FALSE) :
        k \in {"Dispute", "Resolve", "Chargeback"}, c \in Clients, t \in TxIds}

\* ---------------------------------------------------------- account.rs
Clamp(x) == IF x > DecMax THEN DecMax ELSE IF x < -DecMax THEN -DecMax ELSE x
saturating_add(a, b) == Clamp(a + b)
saturating_sub(a, b) == Clamp(a - b)

ClientState_new(c) ==
    [client_id |-> c, available |-> 0, held |-> 0, locked |-> FALSE]

total_avail_only(s) == s.available
total(s) == saturating_add(s.available, s.held)

account_ready_nolock(s, client_id) ==
    IF client_id # s.client_id THEN "ClientIdMismatch" ELSE "Ok"

account_ready(s, client_id) ==
    IF s.locked THEN "AccountLocked"
    ELSE IF client_id # s.client_id THEN "ClientIdMismatch"
    ELSE "Ok"

\* Each operation yields the account after the call and the result; dispute
\* and resolve also yield the stored transaction they hold a &mut to.
chargeback_unguarded(s, tx, chargeback_tx) ==
    LET s1 == [s EXCEPT !.locked = TRUE] IN
    IF s.client_id # tx.client_id THEN [state |-> s, res |-> "ClientIdMismatch"]
    ELSE IF chargeback_tx.amount # None
         THEN [state |-> [s1 EXCEPT !.held = saturating_sub(s1.held, chargeback_tx.amount[1])],
               res |-> "Ok"]
         ELSE [state |-> s1, res |-> "MissingAmount"]

chargeback_check_first(s, tx, chargeback_tx) ==
    LET r == account_ready(s, tx.client_id) IN
    IF r # "Ok" THEN [state |-> s, res |-> r]
    ELSE IF chargeback_tx.amount = None
         THEN [state |-> s, res |-> "MissingAmount"]
         ELSE [state |-> [s EXCEPT !.locked = TRUE,
                                   !.held = saturating_sub(s.held, chargeback_tx.amount[1])],
               res |-> "Ok"]

chargeback(s, tx, chargeback_tx) ==
    LET r == account_ready(s, tx.client_id) IN
    IF r # "Ok" THEN [state |-> s, res |-> r]
    ELSE LET s1 == [s EXCEPT !.locked = TRUE] IN
         IF chargeback_tx.amount # None
         THEN [state |-> [s1 EXCEPT !.held = saturating_sub(s1.held, chargeback_tx.amount[1])],
               res |-> "Ok"]
         ELSE [state |-> s1, res |-> "MissingAmount"]

deposit_without_amount(s, tx) ==
    LET r == account_ready(s, tx.client_id) IN
    IF r # "Ok" THEN [state |-> s, res |-> r]
    ELSE IF tx.amount # None
         THEN [state |-> [s EXCEPT !.available = saturating_add(s.available, tx.amount[1])],
               res |-> "Ok"]
         ELSE [state |-> s, res |-> "Ok"]

deposit_to_held(s, tx) ==
    LET r == account_ready(s, tx.client_id) IN
    IF r # "Ok" THEN [state |-> s, res |-> r]
    ELSE IF tx.amount # None
         THEN [state |-> [s EXCEPT !.held = saturating_add(s.held, tx.amount[1])],
               res |-> "Ok"]
         ELSE [state |-> s, res |-> "MissingAmount"]

deposit(s, tx) ==
    LET r == account_ready(s, tx.client_id) IN
    IF r # "Ok" THEN [state |-> s, res |-> r]
    ELSE IF tx.amount # None
         THEN [state |-> [s EXCEPT !.available = saturating_add(s.available, tx.amount[1])],
               res |-> "Ok"]
         ELSE [state |-> s, res |-> "MissingAmount"]

dispute(s, tx, disputed_tx) ==
    LET r1 == account_ready(s, tx.client_id)
        r2 == account_ready(s, disputed_tx.client_id) IN
    IF r1 # "Ok" THEN [state |-> s, stored |-> disputed_tx, res |-> r1]
    ELSE IF r2 # "Ok" THEN [state |-> s, stored |-> disputed_tx, res |-> r2]
    ELSE IF disputed_tx.amount # None /\ is_disputable(disputed_tx)
         THEN LET amount == disputed_tx.amount[1] IN
              [state |-> [s EXCEPT !.available = saturating_sub(s.available, amount),
                                   !.held = saturating_add(s.held, amount)],
               stored |-> [disputed_tx EXCEPT !.in_dispute = TRUE],
               res |-> "Ok"]
         ELSE [state |-> s, stored |-> disputed_tx, res |-> "NotDisputable"]

resolve_amount_first(s, tx, disputed_tx) ==
    LET r1 == account_ready(s, tx.client_id)
        r2 == account_ready(s, disputed_tx.client_id) IN
    IF r1 # "Ok" THEN [state |-> s, stored |-> disputed_tx, res |-> r1]
    ELSE IF r2 # "Ok" THEN [state |-> s, stored |-> disputed_tx, res |-> r2]
    ELSE IF disputed_tx.amount = None
         THEN [state |-> s, stored |-> disputed_tx, res |-> "MissingAmount"]
         ELSE IF ~disputed_tx.in_dispute
              THEN [state |-> s, stored |-> disputed_tx, res |-> "NotInDispute"]
              ELSE [state |-> [s EXCEPT !.available =
                                   saturating_add(s.available, disputed_tx.amount[1]),
                               !.held =
                                   saturating_sub(s.held, disputed_tx.amount[1])],
                    stored |-> [disputed_tx EXCEPT !.in_dispute = FALSE],
                    res |-> "Ok"]

resolve_keeps_held(s, tx, disputed_tx) ==
    LET r1 == account_ready(s, tx.client_id)
        r2 == account_ready(s, disputed_tx.client_id) IN
    IF r1 # "Ok" THEN [state |-> s, stored |-> disputed_tx, res |-> r1]
    ELSE IF r2 # "Ok" THEN [state |-> s, stored |-> disputed_tx, res |-> r2]
    ELSE IF disputed_tx.amount # None /\ disputed_tx.in_dispute
         THEN [state |-> [s EXCEPT !.available =
                              saturating_add(s.available, disputed_tx.amount[1])],
               stored |-> [disputed_tx EXCEPT !.in_dispute = FALSE],
               res |-> "Ok"]
         ELSE IF ~disputed_tx.in_dispute
              THEN [state |-> s, stored |-> disputed_tx, res |-> "NotInDispute"]
              ELSE [state |-> s, stored |-> disputed_tx, res |-> "MissingAmount"]

resolve(s, tx, disputed_tx) ==
    LET r1 == account_ready(s, tx.client_id)
        r2 == account_ready(s, disputed_tx.client_id) IN
    IF r1 # "Ok" THEN [state |-> s, stored |-> disputed_tx, res |-> r1]
    ELSE IF r2 # "Ok" THEN [state |-> s, stored |-> disputed_tx, res |-> r2]
    ELSE IF disputed_tx.amount # None /\ disputed_tx.in_dispute
         THEN LET amount == disputed_tx.amount[1] IN
              [state |-> [s EXCEPT !.available = saturating_add(s.available, amount),
                                   !.held = saturating_sub(s.held, amount)],
               stored |-> [disputed_tx EXCEPT !.in_dispute = FALSE],
               res |-> "Ok"]
         ELSE IF ~disputed_tx.in_dispute
              THEN [state |-> s, stored |-> disputed_tx, res |-> "NotInDispute"]
              ELSE [state |-> s, stored |-> disputed_tx, res |-> "MissingAmount"]

withdraw_strict(s, tx) ==
    LET r == account_ready(s, tx.client_id) IN
    IF r # "Ok" THEN [state |-> s, res |-> r]
    ELSE IF tx.amount # None /\ s.available > tx.amount[1]
         THEN [state |-> [s EXCEPT !.available = saturating_sub(s.available, tx.amount[1])],
               res |-> "Ok"]
         ELSE IF tx.amount # None
              THEN [state |-> s, res |-> "InsufficientFunds"]
              ELSE [state |-> s, res |-> "MissingAmount"]

withdraw_unchecked(s, tx) ==
    LET r == account_ready(s, tx.client_id) IN
    IF r # "Ok" THEN [state |-> s, res |-> r]
    ELSE IF tx.amount # None
         THEN [state |-> [s EXCEPT !.available = saturating_sub(s.available, tx.amount[1])],
               res |-> IF s.available >= tx.amount[1] THEN "Ok" ELSE "InsufficientFunds"]
         ELSE [state |-> s, res |-> "MissingAmount"]

withdraw(s, tx) ==
    LET r == account_ready(s, tx.client_id) IN
    IF r # "Ok" THEN [state |-> s, res |-> r]
    ELSE IF tx.amount # None /\ s.available >= tx.amount[1]
         THEN [state |-> [s EXCEPT !.available = saturating_sub(s.available, tx.amount[1])],
               res |-> "Ok"]
         ELSE IF tx.amount # None /\ s.available < tx.amount[1]
              THEN [state |-> s, res |-> "InsufficientFunds"]
              ELSE [state |-> s, res |-> "MissingAmount"]

\* ----------------------------------------------------------- ledger.rs
Ledger_new == [accounts |-> << >>, approved_tx |-> << >>]

Put(m, k, v) == [x \in DOMAIN m \cup {k} |-> IF x = k THEN v ELSE m[x]]

record_tx_dropped(approved, tx) == approved
record_tx(approved, tx) == Put(approved, tx.tx_id, tx)

\* Ledger::process_transaction: the ledger after the call and the result.
process_transaction_owner_account(l, tx) ==
    LET c == tx.client_id
        accounts1 == IF c \in DOMAIN l.accounts THEN l.accounts
                     ELSE Put(l.accounts, c, ClientState_new(c))
        state == accounts1[c]
        found == tx.tx_id \in DOMAIN l.approved_tx
    IN
    CASE tx.tx_type = "Deposit" ->
           LET r == deposit(state, tx) IN
           [accounts |-> Put(accounts1, c, r.state),
            approved_tx |-> IF r.res = "Ok" THEN record_tx(l.approved_tx, tx)
                            ELSE l.approved_tx,
            res |-> r.res]
      [] tx.tx_type = "Withdrawal" ->
           LET r == withdraw(state, tx) IN
           [accounts |-> Put(accounts1, c, r.state),
            approved_tx |-> IF r.res = "Ok" THEN record_tx(l.approved_tx, tx)
                            ELSE l.approved_tx,
            res |-> r.res]
      [] tx.tx_type = "Dispute" /\ found ->
           LET r == dispute(state, tx, l.approved_tx[tx.tx_id]) IN
           [accounts |-> Put(accounts1, c, r.state),
            approved_tx |-> Put(l.approved_tx, tx.tx_id, r.stored),
            res |-> r.res]
      [] tx.tx_type = "Resolve" /\ found ->
           LET r == resolve(state, tx, l.approved_tx[tx.tx_id]) IN
           [accounts |-> Put(accounts1, c, r.state),
            approved_tx |-> Put(l.approved_tx, tx.tx_id, r.stored),
            res |-> r.res]
      [] tx.tx_type = "Chargeback" /\ found ->
           LET o == l.approved_tx[tx.tx_id].client_id
               r == chargeback(accounts1[o],
                               [tx EXCEPT !.client_id = o],
                               l.approved_tx[tx.tx_id]) IN
           [accounts |-> Put(accounts1, o, r.state),
            approved_tx |-> l.approved_tx,
            res |-> r.res]
      [] OTHER ->
           [accounts |-> accounts1, approved_tx |-> l.approved_tx,
            res |-> "UnmatchedReference"]

process_transaction_no_entry(l, tx) ==
    LET c == tx.client_id
        accounts1 == IF c \in DOMAIN l.accounts THEN l.accounts
                     ELSE Put(l.accounts, c, ClientState_new(c))
        state == accounts1[c]
        found == tx.tx_id \in DOMAIN l.approved_tx
    IN
    CASE tx.tx_type = "Deposit" ->
           LET r == deposit(state, tx) IN
           [accounts |-> Put(accounts1, c, r.state),
            approved_tx |-> IF r.res = "Ok" THEN record_tx(l.approved_tx, tx)
                            ELSE l.approved_tx,
            res |-> r.res]
      [] tx.tx_type = "Withdrawal" ->
           LET r == withdraw(state, tx) IN
           [accounts |-> Put(accounts1, c, r.state),
            approved_tx |-> IF r.res = "Ok" THEN record_tx(l.approved_tx, tx)
                            ELSE l.approved_tx,
            res |-> r.res]
      [] tx.tx_type = "Dispute" /\ found ->
           LET r == dispute(state, tx, l.approved_tx[tx.tx_id]) IN
           [accounts |-> Put(accounts1, c, r.state),
            approved_tx |-> Put(l.approved_tx, tx.tx_id, r.stored),
            res |-> r.res]
      [] tx.tx_type = "Resolve" /\ found ->
           LET r == resolve(state, tx, l.approved_tx[tx.tx_id]) IN
           [accounts |-> Put(accounts1, c, r.state),
            approved_tx |-> Put(l.approved_tx, tx.tx_id, r.stored),
            res |-> r.res]
      [] tx.tx_type = "Chargeback" /\ found ->
           LET r == chargeback(state, tx, l.approved_tx[tx.tx_id]) IN
           [accounts |-> Put(accounts1, c, r.state),
            approved_tx |-> l.approved_tx,
            res |-> r.res]
      [] OTHER ->
           [accounts |-> l.accounts, approved_tx |-> l.approved_tx,
            res |-> "UnmatchedReference"]

process_transaction_locks_unmatched(l, tx) ==
    LET c == tx.client_id
        accounts1 == IF c \in DOMAIN l.accounts THEN l.accounts
                     ELSE Put(l.accounts, c, ClientState_new(c))
        state == accounts1[c]
        found == tx.tx_id \in DOMAIN l.approved_tx
    IN
    CASE tx.tx_type = "Deposit" ->
           LET r == deposit(state, tx) IN
           [accounts |-> Put(accounts1, c, r.state),
            approved_tx |-> IF r.res = "Ok" THEN record_tx(l.approved_tx, tx)
                            ELSE l.approved_tx,
            res |-> r.res]
      [] tx.tx_type = "Withdrawal" ->
           LET r == withdraw(state, tx) IN
           [accounts |-> Put(accounts1, c, r.state),
            approved_tx |-> IF r.res = "Ok" THEN record_tx(l.approved_tx, tx)
                            ELSE l.approved_tx,
            res |-> r.res]
      [] tx.tx_type = "Dispute" /\ found ->
           LET r == dispute(state, tx, l.approved_tx[tx.tx_id]) IN
           [accounts |-> Put(accounts1, c, r.state),
            approved_tx |-> Put(l.approved_tx, tx.tx_id, r.stored),
            res |-> r.res]
      [] tx.tx_type = "Resolve" /\ found ->
           LET r == resolve(state, tx, l.approved_tx[tx.tx_id]) IN
           [accounts |-> Put(accounts1, c, r.state),
            approved_tx |-> Put(l.approved_tx, tx.tx_id, r.stored),
            res |-> r.res]
      [] tx.tx_type = "Chargeback" /\ found ->
           LET r == chargeback(state, tx, l.approved_tx[tx.tx_id]) IN
           [accounts |-> Put(accounts1, c, r.state),
            approved_tx |-> l.approved_tx,
            res |-> r.res]
      [] OTHER ->
           [accounts |-> IF tx.tx_type = "Chargeback"
                         THEN Put(accounts1, c, [state EXCEPT !.locked = TRUE])
                         ELSE accounts1,
            approved_tx |-> l.approved_tx,
            res |-> "UnmatchedReference"]

process_transaction(l, tx) ==
    LET c == tx.client_id
        accounts1 == IF c \in DOMAIN l.accounts THEN l.accounts
                     ELSE Put(l.accounts, c, ClientState_new(c))
        state == accounts1[c]
        found == tx.tx_id \in DOMAIN l.approved_tx
    IN
    CASE tx.tx_type = "Deposit" ->
           LET r == deposit(state, tx) IN
           [accounts |-> Put(accounts1, c, r.state),
            approved_tx |-> IF r.res = "Ok" THEN record_tx(l.approved_tx, tx)
                            ELSE l.approved_tx,
            res |-> r.res]
      [] tx.tx_type = "Withdrawal" ->
           LET r == withdraw(state, tx) IN
           [accounts |-> Put(accounts1, c, r.state),
            approved_tx |-> IF r.res = "Ok" THEN record_tx(l.approved_tx, tx)
                            ELSE l.approved_tx,
            res |-> r.res]
      [] tx.tx_type = "Dispute" /\ found ->
           LET r == dispute(state, tx, l.approved_tx[tx.tx_id]) IN
           [accounts |-> Put(accounts1, c, r.state),
            approved_tx |-> Put(l.approved_tx, tx.tx_id, r.stored),
            res |-> r.res]
      [] tx.tx_type = "Resolve" /\ found ->
           LET r == resolve(state, tx, l.approved_tx[tx.tx_id]) IN
           [accounts |-> Put(accounts1, c, r.state),
            approved_tx |-> Put(l.approved_tx, tx.tx_id, r.stored),
            res |-> r.res]
      [] tx.tx_type = "Chargeback" /\ found ->
           LET r == chargeback(state, tx, l.approved_tx[tx.tx_id]) IN
           [accounts |-> Put(accounts1, c, r.state),
            approved_tx |-> l.approved_tx,
            res |-> r.res]
      [] OTHER ->
           [accounts |-> accounts1, approved_tx |-> l.approved_tx,
            res |-> "UnmatchedReference"]

\* ------------------------------------------------------------- state
VARIABLES
    ledger,     \* one Ledger: [accounts, approved_tx]
    last,       \* the transaction processed last and its result
    steps,      \* how many transactions have been received / calls made
    acct,       \* a ClientState driven through the Transact trait directly
    stored,     \* the Transaction a caller of the trait passes as the stored one
    num,        \* main: the number of workers (num_cpus::get())
    mainPc,     \* main: "routing", "joining", "done" (Ok) or "failed" (Err)
    nread,      \* router: rows read from the source so far
    sent,       \* history: the transactions the router has sent, in order
    inbox,      \* per worker: the unbounded channel's queue
    wledger,    \* per worker: the Ledger event_handler owns
    wdone,      \* per worker: event_handler has returned its accounts
    applied,    \* history, per worker: the transactions it has processed
    joined,     \* main: the workers awaited so far
    results     \* main: the merged map

apiVars == <<acct, stored>>
pipeVars == <<num, mainPc, nread, sent, inbox, wledger, wdone, applied, joined, results>>
vars == <<ledger, last, steps, acct, stored,
          num, mainPc, nread, sent, inbox, wledger, wdone, applied, joined, results>>

NoLast == [tx |-> Transaction("Deposit", 1, 1, None, FALSE), res |-> "None"]
NoStored == Transaction("Deposit", 1, 1, None, FALSE)

LedgerIdle == ledger = Ledger_new
ApiIdle == acct = ClientState_new(1) /\ stored = NoStored
PipeIdle ==
    /\ num = 1 /\ mainPc = "idle" /\ nread = 0 /\ sent = << >>
    /\ inbox = << >> /\ wledger = << >> /\ wdone = << >> /\ applied = << >>
    /\ joined = 0 /\ results = << >>

\* ---------------------------------------------- one Ledger, any input
Init ==
    /\ ledger = Ledger_new
    /\ last = NoLast
    /\ steps = 0
    /\ ApiIdle
    /\ PipeIdle

\* the body of event_handler's loop for one received transaction
Process(tx) ==
    LET r == process_transaction(ledger, tx) IN
    /\ steps < MaxSteps
    /\ steps' = steps + 1
    /\ ledger' = [accounts |-> r.accounts, approved_tx |-> r.approved_tx]
    /\ last' = [tx |-> tx, res |-> r.res]
    /\ UNCHANGED apiVars
    /\ UNCHANGED pipeVars

Next == \E tx \in InputTxs : Process(tx)

Spec == Init /\ [][Next]_vars

\* ------------------------- one Ledger, input without negative amounts
NonNegative(tx) == tx.amount # None => tx.amount[1] >= 0

ProcessNonNegative(tx) ==
    /\ NonNegative(tx)
    /\ Process(tx)

NextNonNegative == \E tx \in InputTxs : ProcessNonNegative(tx)

SpecNonNegative == Init /\ [][NextNonNegative]_vars

\* ------------------------------- the Transact trait, called directly
\* A caller (as the unit tests of account.rs do) holds one ClientState and one
\* Transaction of its own making, which it passes as the stored transaction,
\* and calls the five operations in any order.
ApiTxs == {tx \in InputTxs : tx.tx_id = 1}
StoredTxs ==
    {Transaction(k, c, 1, a, d) :
        k \in Kinds, c \in Clients, a \in OptAmounts, d \in BOOLEAN}

InitApi ==
    /\ acct \in {ClientState_new(c) : c \in Clients}
    /\ stored \in StoredTxs
    /\ last = NoLast
    /\ steps = 0
    /\ LedgerIdle
    /\ PipeIdle

Called(tx, r) ==
    /\ steps < MaxSteps
    /\ steps' = steps + 1
    /\ acct' = r.state
    /\ last' = [tx |-> tx, res |-> r.res]
    /\ UNCHANGED ledger
    /\ UNCHANGED pipeVars

CallDeposit(tx) ==
    /\ tx.tx_type = "Deposit"
    /\ Called(tx, deposit(acct, tx))
    /\ UNCHANGED stored

CallWithdraw(tx) ==
    /\ tx.tx_type = "Withdrawal"
    /\ Called(tx, withdraw(acct, tx))
    /\ UNCHANGED stored

CallDispute(tx) ==
    /\ tx.tx_type = "Dispute"
    /\ Called(tx, dispute(acct, tx, stored))
    /\ stored' = dispute(acct, tx, stored).stored

CallResolve(tx) ==
    /\ tx.tx_type = "Resolve"
    /\ Called(tx, resolve(acct, tx, stored))
    /\ stored' = resolve(acct, tx, stored).stored

CallChargeback(tx) ==
    /\ tx.tx_type = "Chargeback"
    /\ Called(tx, chargeback(acct, tx, stored))
    /\ UNCHANGED stored

NextApi ==
    \/ \E tx \in ApiTxs : CallDeposit(tx)
    \/ \E tx \in ApiTxs : CallWithdraw(tx)
    \/ \E tx \in ApiTxs : CallDispute(tx)
    \/ \E tx \in ApiTxs : CallResolve(tx)
    \/ \E tx \in ApiTxs : CallChargeback(tx)

SpecApi == InitApi /\ [][NextApi]_vars

\* ------------------------------------- main.rs, io_ops.rs: the pipeline
\* main runs on a current_thread runtime: the router (partition_csv_events,
\* awaited by main), then the join loop; the workers are spawned tasks that
\* run whenever main is suspended.  One action is one stretch between awaits.
Workers == 0..(num - 1)

\* the transactions the source rows of this model deserialize to
PipeTxs ==
    {tx \in InputTxs :
        /\ tx.tx_id = 1
        /\ tx.tx_type \in {"Deposit", "Dispute", "Resolve", "Chargeback"}
        /\ tx.tx_type = "Deposit" => tx.amount = Some(1)}

worker_index_by_tx(tx, n) == tx.tx_id % n
worker_index(tx, n) == tx.client_id % n

InitPipe ==
    /\ num \in 1..MaxWorkers
    /\ mainPc = "routing"
    /\ nread = 0
    /\ sent = << >>
    /\ inbox = [w \in Workers |-> << >>]
    /\ wledger = [w \in Workers |-> Ledger_new]
    /\ wdone = [w \in Workers |-> FALSE]
    /\ applied = [w \in Workers |-> << >>]
    /\ joined = 0
    /\ results = << >>
    /\ last = NoLast
    /\ steps = 0
    /\ LedgerIdle
    /\ ApiIdle

\* records.next() yields a record that deserializes: send it to its worker
RouterSend(tx) ==
    /\ mainPc = "routing"
    /\ nread < MaxInput
    /\ nread' = nread + 1
    /\ sent' = Append(sent, tx)
    /\ inbox' = [inbox EXCEPT ![worker_index(tx, num)] = Append(@, tx)]
    /\ UNCHANGED <<num, mainPc, wledger, wdone, applied, joined, results>>
    /\ UNCHANGED <<ledger, last, steps, acct, stored>>

\* records.next() yields Err (a row the CSV reader rejects): it is skipped
RouterSkip ==
    /\ mainPc = "routing"
    /\ nread < MaxInput
    /\ nread' = nread + 1
    /\ UNCHANGED <<num, mainPc, sent, inbox, wledger, wdone, applied, joined, results>>
    /\ UNCHANGED <<ledger, last, steps, acct, stored>>

\* record.deserialize fails: `?` returns Err from partition_csv_events and
\* from main; the runtime shuts down and no spawned task runs again
RouterFail ==
    /\ mainPc = "routing"
    /\ nread < MaxInput
    /\ nread' = nread + 1
    /\ mainPc' = "failed"
    /\ UNCHANGED <<num, sent, inbox, wledger, wdone, applied, joined, results>>
    /\ UNCHANGED <<ledger, last, steps, acct, stored>>

\* records.next() yields None: partition_csv_events returns Ok and drops the
\* senders it owns, which closes every channel
RouterEnd ==
    /\ mainPc = "routing"
    /\ mainPc' = "joining"
    /\ UNCHANGED <<num, nread, sent, inbox, wledger, wdone, applied, joined, results>>
    /\ UNCHANGED <<ledger, last, steps, acct, stored>>

recv_last(q) == [tx |-> q[Len(q)], rest |-> SubSeq(q, 1, Len(q) - 1)]
\* UnboundedReceiver::recv on a non-empty queue: the oldest message
recv(q) == [tx |-> Head(q), rest |-> Tail(q)]

\* event_handler: rx.recv() yields Some(tx); process it, drop any error
WorkerRecv(w) ==
    /\ mainPc \in {"routing", "joining"}
    /\ ~wdone[w]
    /\ inbox[w] # << >>
    /\ LET m == recv(inbox[w])
           r == process_transaction(wledger[w], m.tx) IN
       /\ inbox' = [inbox EXCEPT ![w] = m.rest]
       /\ wledger' = [wledger EXCEPT
                        ![w] = [accounts |-> r.accounts, approved_tx |-> r.approved_tx]]
       /\ applied' = [applied EXCEPT ![w] = Append(@, m.tx)]
       /\ last' = [tx |-> m.tx, res |-> r.res]
    /\ UNCHANGED <<num, mainPc, nread, sent, wdone, joined, results>>
    /\ UNCHANGED <<ledger, steps, acct, stored>>

WorkerExit_on_empty(w) ==
    /\ mainPc \in {"routing", "joining"}
    /\ ~wdone[w]
    /\ inbox[w] = << >>
    /\ wdone' = [wdone EXCEPT ![w] = TRUE]
    /\ UNCHANGED <<num, mainPc, nread, sent, inbox, wledger, applied, joined, results>>
    /\ UNCHANGED <<ledger, last, steps, acct, stored>>

\* event_handler: rx.recv() yields None (queue empty, senders dropped);
\* the task completes with ledger.accounts
WorkerExit(w) ==
    /\ mainPc = "joining"
    /\ ~wdone[w]
    /\ inbox[w] = << >>
    /\ wdone' = [wdone EXCEPT ![w] = TRUE]
    /\ UNCHANGED <<num, mainPc, nread, sent, inbox, wledger, applied, joined, results>>
    /\ UNCHANGED <<ledger, last, steps, acct, stored>>

\* AHashMap::extend: every entry of m is inserted, replacing an equal key
extend(into, m) ==
    [k \in DOMAIN into \cup DOMAIN m |-> IF k \in DOMAIN m THEN m[k] ELSE into[k]]

Join_unawaited ==
    /\ mainPc = "joining"
    /\ joined < num
    /\ results' = extend(results, wledger[joined].accounts)
    /\ joined' = joined + 1
    /\ UNCHANGED <<num, mainPc, nread, sent, inbox, wledger, wdone, applied>>
    /\ UNCHANGED <<ledger, last, steps, acct, stored>>

\* main: the next JoinHandle, in spawn order, is ready; merge its map
Join ==
    /\ mainPc = "joining"
    /\ joined < num
    /\ wdone[joined]
    /\ results' = extend(results, wledger[joined].accounts)
    /\ joined' = joined + 1
    /\ UNCHANGED <<num, mainPc, nread, sent, inbox, wledger, wdone, applied>>
    /\ UNCHANGED <<ledger, last, steps, acct, stored>>

\* main: every worker is joined; display_results writes the merged map
Display ==
    /\ mainPc = "joining"
    /\ joined = num
    /\ mainPc' = "done"
    /\ UNCHANGED <<num, nread, sent, inbox, wledger, wdone, applied, joined, results>>
    /\ UNCHANGED <<ledger, last, steps, acct, stored>>

NextPipe ==
    \/ \E tx \in PipeTxs : RouterSend(tx)
    \/ RouterSkip
    \/ RouterFail
    \/ RouterEnd
    \/ \E w \in Workers : WorkerRecv(w)
    \/ \E w \in Workers : WorkerExit(w)
    \/ Join
    \/ Display

SpecPipe == InitPipe /\ [][NextPipe]_vars

\* the main task: partition_csv_events, then the joins, then display_results
MainStep ==
    \/ \E tx \in PipeTxs : RouterSend(tx)
    \/ RouterSkip
    \/ RouterFail
    \/ RouterEnd
    \/ Join
    \/ Display

\* the task spawned for worker w
WorkerStep(w) == w \in Workers /\ (WorkerRecv(w) \/ WorkerExit(w))

\* the runtime polls every task that is ready: the main task and each
\* spawned event_handler
PipeFairness ==
    /\ WF_vars(MainStep)
    /\ \A w \in 0..(MaxWorkers - 1) : WF_vars(WorkerStep(w))

SpecPipeFair == InitPipe /\ [][NextPipe]_vars /\ PipeFairness

\* =============================================================== claims
\* the account of client c as process_transaction sees it: the entry, or the
\* fresh one or_insert_with would put there
AccountOf(l, c) ==
    IF c \in DOMAIN l.accounts THEN l.accounts[c] ELSE ClientState_new(c)

\* this step is the Ledger processing one transaction / one call of the trait
Stepped == steps' = steps + 1

LockedBefore(c) == c \in DOMAIN ledger.accounts /\ ledger.accounts[c].locked

\* C1 as stated: once an account is locked, every later Deposit, Withdrawal,
\* Dispute or Resolve for that client fails with AccountLocked, also when it
\* references an unknown tx_id.
C1_LockedFailsAccountLockedAlways ==
    [][(/\ Stepped
        /\ last'.tx.tx_type \in {"Deposit", "Withdrawal", "Dispute", "Resolve"}
        /\ LockedBefore(last'.tx.client_id))
       => last'.res = "AccountLocked"]_vars

\* C1 (amended): once an account is locked, every later Deposit or Withdrawal
\* for that client, and every later Dispute or Resolve of a tx_id present in
\* the store, fails with AccountLocked; a Dispute or Resolve of a tx_id that
\* is not in the store fails with UnmatchedReference.
C1_LockedFails ==
    [][(/\ Stepped
        /\ last'.tx.tx_type \in {"Deposit", "Withdrawal", "Dispute", "Resolve"}
        /\ LockedBefore(last'.tx.client_id))
       => last'.res =
            IF /\ last'.tx.tx_type \in {"Dispute", "Resolve"}
               /\ last'.tx.tx_id \notin DOMAIN ledger.approved_tx
            THEN "UnmatchedReference"
            ELSE "AccountLocked"]_vars

\* a locked account has just refused a Dispute of a stored transaction
C1_Witness ==
    /\ last.res = "AccountLocked"
    /\ last.tx.tx_type = "Dispute"
    /\ last.tx.tx_id \in DOMAIN ledger.approved_tx
    /\ ledger.accounts[last.tx.client_id].locked

\* C2: a Dispute of a stored transaction whose in_dispute flag is already
\* true fails and leaves available and held of the client as they were.
C2_SecondDisputeFails ==
    [][(/\ Stepped
        /\ last'.tx.tx_type = "Dispute"
        /\ last'.tx.tx_id \in DOMAIN ledger.approved_tx
        /\ ledger.approved_tx[last'.tx.tx_id].in_dispute)
       => /\ last'.res # "Ok"
          /\ AccountOf(ledger', last'.tx.client_id).available
               = AccountOf(ledger, last'.tx.client_id).available
          /\ AccountOf(ledger', last'.tx.client_id).held
               = AccountOf(ledger, last'.tx.client_id).held]_vars

\* C3: a Dispute, Resolve or Chargeback whose client_id differs from the
\* client_id of the stored transaction it references is rejected with
\* ClientIdMismatch (on an account that is not locked: the lock check comes
\* first), for each of the three kinds.
C3_MismatchRejected ==
    [][(/\ Stepped
        /\ last'.tx.tx_type \in {"Dispute", "Resolve", "Chargeback"}
        /\ last'.tx.tx_id \in DOMAIN ledger.approved_tx
        /\ ledger.approved_tx[last'.tx.tx_id].client_id # last'.tx.client_id
        /\ ~LockedBefore(last'.tx.client_id))
       => last'.res = "ClientIdMismatch"]_vars

\* C4: a Chargeback on an unlocked account with a matching client_id leaves
\* the account locked, when it succeeds (held reduced, saturating, by the
\* stored amount, available unchanged) and when it fails because the stored
\* transaction has no amount.
C4_ChargebackLocks ==
    [][(/\ Stepped
        /\ last'.tx.tx_type = "Chargeback"
        /\ ~acct.locked
        /\ last'.tx.client_id = acct.client_id)
       => /\ acct'.locked
          /\ acct'.available = acct.available
          /\ IF stored.amount = None
             THEN last'.res = "MissingAmount" /\ acct'.held = acct.held
             ELSE /\ last'.res = "Ok"
                  /\ acct'.held = saturating_sub(acct.held, stored.amount[1])]_vars

\* a Chargeback has just failed for want of an amount, and the account is locked
C4_Witness ==
    /\ last.tx.tx_type = "Chargeback"
    /\ last.res = "MissingAmount"
    /\ stored.amount = None
    /\ acct.locked

\* C8: a transaction that fails leaves available, held and locked of every
\* account as they were; at most it creates the zero, unlocked account of its
\* own client.
C8_FailureLeavesBalances ==
    [][(Stepped /\ last'.res # "Ok")
       => /\ \A c \in DOMAIN ledger.accounts :
               c \in DOMAIN ledger'.accounts /\ ledger'.accounts[c] = ledger.accounts[c]
          /\ \A c \in DOMAIN ledger'.accounts \ DOMAIN ledger.accounts :
               c = last'.tx.client_id /\ ledger'.accounts[c] = ClientState_new(c)]_vars

\* a Withdrawal has just failed for insufficient funds on an account that
\* holds funds, and another has failed while creating its account
C8_Witness ==
    /\ last.res = "InsufficientFunds"
    /\ ledger.accounts[last.tx.client_id].available > 0
    /\ \E c \in DOMAIN ledger.accounts : ledger.accounts[c] = ClientState_new(c)

\* C10 as stated: total() equals available + held for every account in every
\* reachable state, saturated ones included.
C10_TotalIsSum ==
    \A c \in DOMAIN ledger.accounts :
        total(ledger.accounts[c]) = ledger.accounts[c].available + ledger.accounts[c].held

\* C10 (amended): total() equals available + held whenever that sum lies in
\* the range of the balance type, and is the nearer end of the range otherwise.
C10_TotalIsClampedSum ==
    \A c \in DOMAIN ledger.accounts :
        LET a == ledger.accounts[c].available
            h == ledger.accounts[c].held
            t == total(ledger.accounts[c]) IN
        /\ (a + h \in Decimals) => t = a + h
        /\ (a + h > DecMax) => t = DecMax
        /\ (a + h < -DecMax) => t = -DecMax

\* an account whose available + held lies beyond the range, and one with funds
\* held whose sum lies within it
C10_Witness ==
    /\ \E c \in DOMAIN ledger.accounts :
         ledger.accounts[c].available + ledger.accounts[c].held > DecMax
    /\ \E c \in DOMAIN ledger.accounts :
         /\ ledger.accounts[c].held > 0
         /\ ledger.accounts[c].available + ledger.accounts[c].held \in Decimals

\* ---------------------------------------------------- pipeline claims
\* the transactions of sequence q that client c made, in q's order
OfClient(q, c) ==
    LET Test(tx) == tx.client_id = c IN SelectSeq(q, Test)

\* the transactions of sequence q that are routed to worker w of n, in q's order
OfWorker(q, w, n) ==
    LET Test(tx) == worker_index(tx, n) = w IN SelectSeq(q, Test)

\* one Ledger fed the sequence q from its first element to its last
RECURSIVE RunLedger(_)
RunLedger(q) ==
    IF q = << >> THEN Ledger_new
    ELSE LET r == process_transaction(RunLedger(SubSeq(q, 1, Len(q) - 1)), q[Len(q)])
         IN [accounts |-> r.accounts, approved_tx |-> r.approved_tx]

\* the maps of workers 0 .. k-1 of n, each fed its share of q, merged in order
RECURSIVE MergedRun(_, _, _)
MergedRun(q, n, k) ==
    IF k = 0 THEN << >>
    ELSE extend(MergedRun(q, n, k - 1), RunLedger(OfWorker(q, k - 1, n)).accounts)

\* C5: the transactions of client c reach worker c mod N and no other, and
\* that worker applies them in the order in which the router read them.
C5_OneWorkerInOrder ==
    \A c \in Clients : \A w \in DOMAIN inbox :
        IF w = c % num
        THEN OfClient(applied[w] \o inbox[w], c) = OfClient(sent, c)
        ELSE OfClient(applied[w] \o inbox[w], c) = << >>

\* with two workers, one has applied two transactions of a client between
\* which the router read a transaction of the other client
C5_Witness ==
    /\ num = 2
    /\ Len(sent) = 3
    /\ sent[1].client_id = sent[3].client_id
    /\ sent[2].client_id # sent[1].client_id
    /\ sent[1] # sent[3]
    /\ Len(applied[sent[1].client_id % num]) = 2
    /\ applied[sent[2].client_id % num] = << >>

\* C6: the merged map that main displays is the one a single Ledger (one
\* worker) produces from the same transactions, whatever the worker count.
C6_WorkerCountIrrelevant ==
    mainPc = "done" => results = RunLedger(sent).accounts

\* C7: for a worker count and an input, the merged map that main displays is
\* a function of the two, the same under every interleaving: each worker's
\* Ledger fed its share of the input in order, merged in spawn order.
C7_Deterministic ==
    mainPc = "done" => results = MergedRun(sent, num, num)

\* a run of two workers has ended in which both applied transactions while
\* the router was still to read the last one
C7_Witness ==
    /\ mainPc = "done"
    /\ num = 2
    /\ Len(sent) = 3
    /\ \A w \in DOMAIN applied : applied[w] # << >>
    /\ \E c \in DOMAIN results : results[c].held # 0

\* the positions in q of the transactions that fail when one Ledger is fed q
Failures(q) ==
    {i \in 1..Len(q) :
        process_transaction(RunLedger(SubSeq(q, 1, i - 1)), q[i]).res # "Ok"}

\* C9: a failed transaction never stops a worker: when the program ends, a
\* worker that has had a transaction fail has applied every transaction the
\* router placed in its inbox.
C9_FailureNeverStopsWorker ==
    mainPc \in {"done", "failed"}
        => \A w \in DOMAIN inbox : Failures(applied[w]) # {} => inbox[w] = << >>

\* ------------------------------------------------ dispute life cycle
\* the Ledger step just taken was a successful Dispute
DisputeSucceeded ==
    /\ Stepped
    /\ last'.tx.tx_type = "Dispute"
    /\ last'.res = "Ok"

\* the Resolve of the transaction just disputed, processed next by the Ledger
ResolveNext ==
    process_transaction(ledger',
        Transaction("Resolve", last'.tx.client_id, last'.tx.tx_id, None, FALSE))

\* the Resolve that follows succeeds and clears the in_dispute flag
ResolveSucceeds ==
    /\ ResolveNext.res = "Ok"
    /\ ~ResolveNext.approved_tx[last'.tx.tx_id].in_dispute

\* the Resolve that follows restores the balances the Dispute found
ResolveRestores ==
    LET c == last'.tx.client_id IN
    /\ ResolveNext.accounts[c].available = AccountOf(ledger, c).available
    /\ ResolveNext.accounts[c].held = AccountOf(ledger, c).held

\* C11 as stated: a successful Dispute of a stored transaction (here already
\* for one with a positive amount that is not yet in dispute) immediately followed by a Resolve of the same tx_id: the
\* Resolve succeeds, available and held are what they were before the
\* Dispute, and the in_dispute flag is false again.
C11_DisputeResolveRestoresAlways ==
    [][(/\ DisputeSucceeded
        /\ ~ledger.approved_tx[last'.tx.tx_id].in_dispute
        /\ ledger.approved_tx[last'.tx.tx_id].amount[1] > 0)
       => (ResolveSucceeds /\ ResolveRestores)]_vars

\* C11 (amended): the Resolve succeeds and the flag is false again; the
\* balances are restored whenever the Dispute's own arithmetic does not
\* saturate: available - amount and held + amount lie in the range of the
\* balance type.
C11_DisputeResolveRestores ==
    [][DisputeSucceeded
       => /\ ResolveSucceeds
          /\ LET a == ledger.approved_tx[last'.tx.tx_id].amount[1]
                 s == AccountOf(ledger, last'.tx.client_id) IN
             (s.available - a \in Decimals /\ s.held + a \in Decimals)
                 => ResolveRestores]_vars

\* three transactions in: a deposit, its Dispute, and the Resolve that has
\* just succeeded and left the deposit available, nothing held, the flag false
C11_Witness ==
    /\ steps = 3
    /\ last.tx.tx_type = "Resolve"
    /\ last.res = "Ok"
    /\ ledger.approved_tx[last.tx.tx_id].tx_type = "Deposit"
    /\ ledger.accounts[last.tx.client_id].available > 0
    /\ ledger.accounts[last.tx.client_id].held = 0
    /\ ~ledger.approved_tx[last.tx.tx_id].in_dispute

\* a Resolve has just been called, on the account of its own client as the
\* Ledger calls it, against a stored transaction that was not in dispute
ResolveOfUndisputed ==
    /\ Stepped
    /\ last'.tx.tx_type = "Resolve"
    /\ last'.tx.client_id = acct.client_id
    /\ ~stored.in_dispute

\* C12 as stated: a Resolve that references a stored transaction whose
\* in_dispute flag is false fails with NotInDispute and changes neither the
\* balances nor the flag.
C12_UndisputedIsNotInDisputeAlways ==
    [][ResolveOfUndisputed
       => /\ last'.res = "NotInDispute"
          /\ acct' = acct
          /\ stored' = stored]_vars

\* C12 (amended): such a Resolve fails and changes neither the balances nor
\* the flag; the failure is AccountLocked on a locked account, otherwise
\* ClientIdMismatch when the Resolve's or the stored transaction's client_id
\* is not the account's, otherwise NotInDispute, whether or not the stored
\* transaction has an amount.
C12_UndisputedIsNotInDispute ==
    [][ResolveOfUndisputed
       => /\ acct' = acct
          /\ stored' = stored
          /\ last'.res =
                IF acct.locked THEN "AccountLocked"
                ELSE IF stored.client_id # acct.client_id
                     THEN "ClientIdMismatch"
                     ELSE "NotInDispute"]_vars

\* a Resolve has just failed with NotInDispute against a stored transaction
\* that has no amount and is not in dispute
C12_Witness ==
    /\ last.tx.tx_type = "Resolve"
    /\ last.res = "NotInDispute"
    /\ stored.amount = None
    /\ ~stored.in_dispute
    /\ ~acct.locked

\* ------------------------------------------------ deposit and withdrawal
\* the Ledger step just taken was a Deposit with an amount on an account that
\* was not locked
DepositOnUnlocked ==
    /\ Stepped
    /\ last'.tx.tx_type = "Deposit"
    /\ last'.tx.amount # None
    /\ ~LockedBefore(last'.tx.client_id)

\* the Withdrawal of the amount just deposited, under tx_id t, processed next
WithdrawNext(t) ==
    process_transaction(ledger',
        Transaction("Withdrawal", last'.tx.client_id, t, last'.tx.amount, FALSE))

\* the Deposit succeeded, the Withdrawal that follows succeeds under any
\* tx_id, and the balances are those found before the Deposit
WithdrawRestores ==
    LET c == last'.tx.client_id IN
    /\ last'.res = "Ok"
    /\ \A t \in TxIds :
        /\ WithdrawNext(t).res = "Ok"
        /\ WithdrawNext(t).accounts[c].available = AccountOf(ledger, c).available
        /\ WithdrawNext(t).accounts[c].held = AccountOf(ledger, c).held

\* C13 as stated: on every reachable unlocked account and for every amount a
\* (here already for a positive amount on an account whose available is not
\* negative), a Deposit of a immediately followed by a Withdrawal of a both
\* succeed and leave available as it was before the Deposit, held unchanged.
C13_DepositWithdrawRestoresAlways ==
    [][(/\ DepositOnUnlocked
        /\ last'.tx.amount[1] > 0
        /\ AccountOf(ledger, last'.tx.client_id).available >= 0)
       => WithdrawRestores]_vars

\* C13 (amended): the same on every reachable unlocked account whose
\* available is not negative, for every amount a such that available + a
\* lies in the range of the balance type.
C13_DepositWithdrawRestores ==
    [][(/\ DepositOnUnlocked
        /\ LET s == AccountOf(ledger, last'.tx.client_id) IN
           /\ s.available >= 0
           /\ s.available + last'.tx.amount[1] \in Decimals)
       => WithdrawRestores]_vars

\* two transactions in: a Deposit stored under tx_id 1 and the Withdrawal of
\* the same amount, stored under tx_id 2, that has just succeeded and left
\* nothing available
C13_Witness ==
    /\ steps = 2
    /\ last.tx.tx_type = "Withdrawal"
    /\ last.tx.tx_id = 2
    /\ last.res = "Ok"
    /\ 1 \in DOMAIN ledger.approved_tx
    /\ ledger.approved_tx[1].tx_type = "Deposit"
    /\ ledger.approved_tx[1].client_id = last.tx.client_id
    /\ ledger.approved_tx[1].amount = last.tx.amount
    /\ last.tx.amount[1] > 0
    /\ ledger.accounts[last.tx.client_id].available = 0
    /\ ledger.accounts[last.tx.client_id].held = 0

\* C14: a Withdrawal with an amount on an unlocked account succeeds exactly
\* when available >= amount, and then takes the amount from available; when
\* available < amount it fails with InsufficientFunds and leaves the account
\* as it was. held is unchanged either way.
C14_WithdrawIffFunds ==
    [][(/\ Stepped
        /\ last'.tx.tx_type = "Withdrawal"
        /\ last'.tx.amount # None
        /\ ~LockedBefore(last'.tx.client_id))
       => LET c == last'.tx.client_id
              a == last'.tx.amount[1]
              s == AccountOf(ledger, c) IN
          IF s.available >= a
          THEN /\ last'.res = "Ok"
               /\ ledger'.accounts[c] =
                      [s EXCEPT !.available = saturating_sub(s.available, a)]
          ELSE /\ last'.res = "InsufficientFunds"
               /\ ledger'.accounts[c] = s]_vars

\* a Withdrawal of exactly what was available has just succeeded
C14_Witness ==
    /\ last.tx.tx_type = "Withdrawal"
    /\ last.res = "Ok"
    /\ last.tx.amount[1] > 0
    /\ ledger.accounts[last.tx.client_id].available = 0
    /\ ~ledger.accounts[last.tx.client_id].locked

\* ------------------------------------------------ the transaction store
\* the Ledger step just taken was a Dispute, Resolve or Chargeback whose
\* tx_id was not in the store
UnmatchedStep ==
    /\ Stepped
    /\ last'.tx.tx_type \in {"Dispute", "Resolve", "Chargeback"}
    /\ last'.tx.tx_id \notin DOMAIN ledger.approved_tx

\* C15: a Dispute, Resolve or Chargeback whose tx_id is not in the store is
\* rejected with UnmatchedReference; the store is unchanged, and every
\* account has the balances and lock flag it had (or would have had as the
\* fresh account of its client) before.
C15_UnmatchedTouchesNothing ==
    [][UnmatchedStep
       => /\ last'.res = "UnmatchedReference"
          /\ ledger'.approved_tx = ledger.approved_tx
          /\ DOMAIN ledger.accounts \subseteq DOMAIN ledger'.accounts
          /\ \A c \in DOMAIN ledger'.accounts :
                ledger'.accounts[c] = AccountOf(ledger, c)]_vars

\* a Chargeback of an unknown tx_id has just been rejected, for a client
\* whose account holds funds and stays unlocked
C15_Witness ==
    /\ last.tx.tx_type = "Chargeback"
    /\ last.res = "UnmatchedReference"
    /\ last.tx.tx_id \notin DOMAIN ledger.approved_tx
    /\ ledger.accounts[last.tx.client_id].available > 0
    /\ ~ledger.accounts[last.tx.client_id].locked

\* ------------------------------------------------ the end of the pipeline
\* C16: when main hands the merged map to display_results, every worker has
\* terminated, no inbox holds a transaction, and each worker has applied, in
\* order, every transaction the router sent to it.
C16_OutputAfterAllApplied ==
    mainPc = "done"
        => \A w \in Workers :
              /\ wdone[w]
              /\ inbox[w] = << >>
              /\ applied[w] = OfWorker(sent, w, num)

\* the output has been produced by a run of two workers, one of which was
\* sent one transaction and the other two
C16_Witness ==
    /\ mainPc = "done"
    /\ num = 2
    /\ joined = 2
    /\ Len(applied[0]) = 1
    /\ Len(applied[1]) = 2

\* C17: under fair scheduling the run ends, in output or in the router's
\* error; once the router has read the whole source and dropped the senders,
\* every worker empties its inbox and terminates and main produces the
\* output; and no worker terminates while its inbox is still open.
C17_Terminates ==
    /\ <>(mainPc \in {"done", "failed"})
    /\ (mainPc = "joining")
          ~> (/\ mainPc = "done"
              /\ \A w \in Workers : wdone[w] /\ inbox[w] = << >>)
    /\ [](\A w \in Workers : wdone[w] => mainPc \in {"joining", "done"})

\* a run that read a whole source of MaxInput transactions has ended with
\* every worker terminated on an empty inbox
C17_Witness ==
    /\ mainPc = "done"
    /\ Len(sent) = MaxInput
    /\ \A w \in Workers : wdone[w] /\ inbox[w] = << >>

\* C18: a stored record is never removed and its kind, client_id and amount
\* never change; its in_dispute flag becomes true only by a successful
\* Dispute of its tx_id and false only by a successful Resolve of its tx_id.
C18_StoredRecordOnlyFlagged ==
    [][Stepped
       => \A t \in DOMAIN ledger.approved_tx :
             /\ t \in DOMAIN ledger'.approved_tx
             /\ ledger'.approved_tx[t].tx_type = ledger.approved_tx[t].tx_type
             /\ ledger'.approved_tx[t].client_id = ledger.approved_tx[t].client_id
             /\ ledger'.approved_tx[t].amount = ledger.approved_tx[t].amount
             /\ (~ledger.approved_tx[t].in_dispute /\ ledger'.approved_tx[t].in_dispute)
                   => (/\ last'.tx.tx_type = "Dispute"
                       /\ last'.tx.tx_id = t
                       /\ last'.res = "Ok")
             /\ (ledger.approved_tx[t].in_dispute /\ ~ledger'.approved_tx[t].in_dispute)
                   => (/\ last'.tx.tx_type = "Resolve"
                       /\ last'.tx.tx_id = t
                       /\ last'.res = "Ok")]_vars

\* the Dispute of the tx_id of the transaction just processed, by the same
\* client, processed next by the Ledger
DisputeNext ==
    process_transaction(ledger',
        Transaction("Dispute", last'.tx.client_id, last'.tx.tx_id, None, FALSE))

\* a successful Deposit or Withdrawal is stored under its tx_id, a failed one
\* leaves the store as it was; the other kinds add no entry
RecordedIffSucceeds ==
    IF last'.tx.tx_type \in {"Deposit", "Withdrawal"}
    THEN IF last'.res = "Ok"
         THEN /\ DOMAIN ledger'.approved_tx =
                     DOMAIN ledger.approved_tx \cup {last'.tx.tx_id}
              /\ ledger'.approved_tx[last'.tx.tx_id] = last'.tx
              /\ \A t \in DOMAIN ledger.approved_tx \ {last'.tx.tx_id} :
                     ledger'.approved_tx[t] = ledger.approved_tx[t]
         ELSE ledger'.approved_tx = ledger.approved_tx
    ELSE DOMAIN ledger'.approved_tx = DOMAIN ledger.approved_tx

FailedDepositOrWithdrawal ==
    /\ last'.tx.tx_type \in {"Deposit", "Withdrawal"}
    /\ last'.res # "Ok"

\* C19 as stated: a Deposit or Withdrawal is recorded exactly when it
\* succeeds, a Dispute that follows a failed one is unmatched, and Dispute,
\* Resolve and Chargeback never add an entry.
C19_RecordedIffSucceedsAlways ==
    [][Stepped
       => /\ RecordedIffSucceeds
          /\ FailedDepositOrWithdrawal
                => DisputeNext.res = "UnmatchedReference"]_vars

\* C19 (amended): the same, the Dispute that follows a failed Deposit or
\* Withdrawal being unmatched when no record was stored under that tx_id
\* before.
C19_RecordedIffSucceeds ==
    [][Stepped
       => /\ RecordedIffSucceeds
          /\ (/\ FailedDepositOrWithdrawal
              /\ last'.tx.tx_id \notin DOMAIN ledger.approved_tx)
                => DisputeNext.res = "UnmatchedReference"]_vars

\* a Withdrawal has just failed for want of funds and is not in the store,
\* which holds another transaction
C19_Witness ==
    /\ last.tx.tx_type = "Withdrawal"
    /\ last.res = "InsufficientFunds"
    /\ last.tx.tx_id \notin DOMAIN ledger.approved_tx
    /\ ledger.approved_tx # << >>

\* ------------------------------------------------ accounts on demand
\* C20: after the Ledger has processed a transaction, of any kind and with
\* any result, its client has an account; an account created by a failed
\* transaction has available 0, held 0 and is not locked.
C20_AccountExistsAfter ==
    [][Stepped
       => LET c == last'.tx.client_id IN
          /\ c \in DOMAIN ledger'.accounts
          /\ (c \notin DOMAIN ledger.accounts /\ last'.res # "Ok")
                => /\ ledger'.accounts[c].available = 0
                   /\ ledger'.accounts[c].held = 0
                   /\ ~ledger'.accounts[c].locked]_vars

\* a Resolve of an unknown tx_id, the first transaction of client 2, has
\* failed and left client 2 the zero account next to client 1's funds
C20_Witness ==
    /\ last.tx.tx_type = "Resolve"
    /\ last.tx.client_id = 2
    /\ last.res = "UnmatchedReference"
    /\ steps = 2
    /\ ledger.accounts[2] = ClientState_new(2)
    /\ 1 \in DOMAIN ledger.accounts
    /\ ledger.accounts[1].available > 0

\* ------------------------------------------------ locked accounts
\* C21: a locked account is frozen: no transaction of any kind, Chargeback
\* included, changes the available, held or locked of an account that is
\* locked, so locked never returns to false.
C21_LockedIsFrozen ==
    [][Stepped
       => \A c \in DOMAIN ledger.accounts :
             ledger.accounts[c].locked
                => /\ c \in DOMAIN ledger'.accounts
                   /\ ledger'.accounts[c] = ledger.accounts[c]]_vars

\* a Chargeback of a stored transaction of the same client has just been
\* refused because the account is locked already
C21_Witness ==
    /\ last.tx.tx_type = "Chargeback"
    /\ last.res = "AccountLocked"
    /\ last.tx.tx_id \in DOMAIN ledger.approved_tx
    /\ ledger.approved_tx[last.tx.tx_id].client_id = last.tx.client_id
    /\ ledger.accounts[last.tx.client_id].locked

\* ------------------------------------------------ held funds
\* C22: when no Deposit or Withdrawal carries a negative amount, held is
\* non-negative for every account in every reachable state of a Ledger.
C22_HeldNonNegative ==
    \A c \in DOMAIN ledger.accounts : ledger.accounts[c].held >= 0

\* ------------------------------------------------ other clients' accounts
\* C23: processing a transaction of client c changes the available, held or
\* locked of no account but c's, and creates no account but c's, also when
\* the transaction references a stored transaction of another client.
C23_OtherAccountsUntouched ==
    [][Stepped
       => /\ DOMAIN ledger'.accounts \subseteq
                 DOMAIN ledger.accounts \cup {last'.tx.client_id}
          /\ \A c \in DOMAIN ledger.accounts \ {last'.tx.client_id} :
                /\ c \in DOMAIN ledger'.accounts
                /\ ledger'.accounts[c] = ledger.accounts[c]]_vars

\* a Chargeback by client 2 of a transaction stored for client 1 has just
\* gone through: client 2 is locked, client 1 keeps its funds unlocked
C23_Witness ==
    /\ last.tx.tx_type = "Chargeback"
    /\ last.tx.client_id = 2
    /\ last.res = "Ok"
    /\ ledger.approved_tx[last.tx.tx_id].client_id = 1
    /\ ledger.accounts[2].locked
    /\ ~ledger.accounts[1].locked
    /\ ledger.accounts[1].available > 0

\* ------------------------------------------------ what the store holds
\* C24: in every reachable state of a Ledger every stored record is a Deposit
\* or a Withdrawal that has an amount and is stored under its own tx_id; so
\* no transaction ends in NotDisputable, and none but a Deposit or Withdrawal
\* ends in MissingAmount.
C24_StoredAreAmountedDepositsOrWithdrawals ==
    /\ \A t \in DOMAIN ledger.approved_tx :
          /\ ledger.approved_tx[t].tx_type \in {"Deposit", "Withdrawal"}
          /\ ledger.approved_tx[t].amount # None
          /\ ledger.approved_tx[t].tx_id = t
    /\ last.res # "NotDisputable"
    /\ last.res = "MissingAmount" => last.tx.tx_type \in {"Deposit", "Withdrawal"}

\* the store holds a Deposit and a Withdrawal, and the Withdrawal has just
\* been disputed with success
C24_Witness ==
    /\ last.tx.tx_type = "Dispute"
    /\ last.res = "Ok"
    /\ ledger.approved_tx[last.tx.tx_id].tx_type = "Withdrawal"
    /\ \E t \in DOMAIN ledger.approved_tx : ledger.approved_tx[t].tx_type = "Deposit"

====
